---- MODULE Spec2Model ----
(***************************************************************************)
(* Retrieval / context-selection pipeline of the RAG assistant.            *)
(*                                                                         *)
(*   app = "streamlit" : src/backend/test.py  (session-scoped Streamlit    *)
(*                       front-end, one script run per user interaction)   *)
(*   app = "api"       : src/backend/main.py  (FastAPI service, one        *)
(*                       process-wide app_state shared by every caller)    *)
(*   app = "search"    : the functions of src/backend/search.py, applied   *)
(*                       to provider responses                             *)
(*   app = "detect"    : test_url_detector of agents/writeragents.py,      *)
(*                       applied to queries                                *)
(*   app = "chat1"     : src/backend/test1/main.py (chat service with      *)
(*                       histories persisted per chat id)                  *)
(*   app = "curriculum": curriculum_service.py / knowledge_service.py over *)
(*                       the curriculum_steps table (curriculum_utils.py)  *)
(*                                                                         *)
(*   Spec        sessions: uploads, Save / New / Load, document lookups    *)
(*   SpecIngest  ingestion by every route, one request after the other     *)
(*   SpecTurn    the retrieval decision of a chat turn                     *)
(*   SpecApi     the service under overlapping requests of its callers     *)
(*   SpecSearch  google_search / enhanced_google_search                    *)
(*   SpecLinks   turn after turn in one session                            *)
(*   SpecDetect  test_url_detector                                         *)
(*   SpecChat1   /chat and /chat/upload-document of test1/main.py          *)
(*   SpecCurriculum  the curriculum and knowledge services, one call at a  *)
(*               time                                                      *)
(*   SpecSaveDetail  save_curriculum_step_detail calls running together    *)
(***************************************************************************)
EXTENDS Integers, Sequences, FiniteSets, TLC

VARIABLES
    app,                    \* which entry point runs: "streamlit" | "api"
    pinecone_client,        \* TRUE iff init_pinecone returned a client
    chat_session_id,        \* st.session_state.chat_session_id
    next_id,                \* number of session ids minted so far (uuid4 is fresh)
    history,                \* st.session_state.history
    processed_documents,    \* st.session_state / app_state ["processed_documents"]
    vector_store,           \* st.session_state / app_state ["vector_store"]
    session_vector_stores,  \* st.session_state.session_vector_stores
    use_web_search,         \* st.session_state.use_web_search
    search_sources,         \* st.session_state.search_sources
    uploaded_file,          \* the sidebar file_uploader widget
    web_url,                \* the sidebar "Or enter URL" text_input widget
    saved,                  \* SESSIONS_DIR: session id -> pickled session_data
    index,                  \* the Pinecone index: the stored chunks
    pc,                     \* where the script is in a chat turn ("idle": between runs)
    turn,                   \* trace of the last chat turn
    last,                   \* trace of the last request: who issued what
    inflight,               \* main.py: uploads suspended at "await file.read()"
    resp,                   \* search.py: the provider response (writeragents.py:
                            \* the query and what the model answered)
    out,                    \* what the function applied to resp returned
    chat_sessions,          \* test1/main.py: chat id -> the live ChatSession's history
    chat_files,             \* test1/main.py: chat id -> data/<chat_id>-st_messages
    document_context,       \* test1/main.py: chat ids with an uploaded document
    exchanges,              \* trace: chat id -> the exchanges of its successful turns
    curriculum_steps,       \* the rows of the Supabase table curriculum_steps
    unique_step_id,         \* schema: does the table reject a second row of a step_id
    generated,              \* trace: (id, index) -> calls of the detail generator
    savers,                 \* the running save_curriculum_step_detail calls
    call                    \* trace of the last service call and what it returned

appVars    == <<app, pinecone_client, chat_session_id, next_id, history,
                processed_documents, vector_store, session_vector_stores,
                use_web_search, search_sources, uploaded_file, web_url, saved,
                index, pc, turn, last, inflight>>
searchVars == <<resp, out>>
chat1Vars  == <<chat_sessions, chat_files, document_context, exchanges>>
curriculumVars == <<curriculum_steps, unique_step_id, generated, savers, call>>
serviceVars == <<chat1Vars, curriculumVars>>
vars       == <<appVars, searchVars, serviceVars>>

----------------------------------------------------------------------------
(* Bounds of the model *)

MaxSessions == 2     \* session ids that New Session may mint
MaxHistory  == 2     \* a chat turn starts only if its two messages still fit
MaxCallers  == 2     \* clients of the FastAPI service
MaxTurnHistory == 4  \* the same room where turn follows turn (SpecLinks)
MaxChats    == 2     \* chat ids of test1/main.py
MaxTurns    == 3     \* successful /chat turns on one chat id
MaxCurricula == 1    \* rows that coordinate() may create
MaxSteps    == 2     \* steps (sections) of a curriculum
MaxGenerated == 2    \* calls of the detail generator for one section
MaxSavers   == 2     \* save_curriculum_step_detail calls running at once
MaxRows     == 2     \* rows of one step_id, where the table admits several
MaxQuery    == 2     \* tokens of a query given to test_url_detector
MaxAiUrls   == 2     \* urls in the JSON answer of the detection model

----------------------------------------------------------------------------
(* Data *)

Files   == {"a.pdf"}
Urls    == {"http://u1", "http://u2"}
Sources == Files \cup Urls

None    == "None"

\* embedder.create_vector_store(pc, texts) without namespace= : Pinecone's
\* default namespace.  Sessions are numbered from 1.
DefaultNamespace == 0

SessionIds == 1..MaxSessions
Namespaces == SessionIds \cup {DefaultNamespace}

\* A fixed listing of the sources, used to put retrieved chunks in a sequence.
SourceOrder == <<"a.pdf", "http://u1", "http://u2">>

Callers == 1..MaxCallers

\* Who can have ingested a chunk: a session (test.py) or a caller (main.py)
MaxIngester == IF MaxSessions >= MaxCallers THEN MaxSessions ELSE MaxCallers

NoTurn == [kind |-> "none"]
NoReq  == [op |-> "init", by |-> None]

RECURSIVE SeqToSet(_)
SeqToSet(s) == IF s = <<>> THEN {} ELSE {Head(s)} \cup SeqToSet(Tail(s))

InSeq(x, s) == \E i \in 1..Len(s) : s[i] = x

NoDup(s) == \A i, j \in 1..Len(s) : i # j => s[i] # s[j]

\* Sequences without repetition over a set (the values a detector may yield)
RECURSIVE Perms(_)
Perms(S) ==
    IF S = {} THEN {<<>>}
    ELSE UNION {{<<x>> \o p : p \in Perms(S \ {x})} : x \in S}

Lists(S) == UNION {Perms(T) : T \in SUBSET S}

----------------------------------------------------------------------------
(* The vector store *)

\* A stored chunk: the namespace it was upserted under, the source it was
\* cut from, and the session that was current when it was ingested.
Chunk(ns, src, by) == [ns |-> ns, src |-> src, by |-> by]

\* PineconeVectorStore(index, embedding, text_key, namespace=ns): a handle.
Store(ns) == [namespace |-> ns]

\* The index: the chunk batches it holds, and those it holds more than once
\* (add_documents gives every vector a fresh id, so a batch upserted again
\* is stored again).
EmptyIndex == [stored |-> {}, again |-> {}]

\* vector_store.add_documents(texts): upsert one batch of chunks
AddDocuments(idx, ns, src, by) ==
    LET c == Chunk(ns, src, by)
    IN  IF c \in idx.stored THEN [idx EXCEPT !.again = @ \cup {c}]
        ELSE [idx EXCEPT !.stored = @ \cup {c}]

\* how often a lookup meets the batch: not at all, once, or again and again
Copies(idx, c) == IF c \in idx.again THEN 2 ELSE IF c \in idx.stored THEN 1 ELSE 0

----------------------------------------------------------------------------
(* Ingestion *)

Absent  == [kind |-> "Absent"]   \* a key that is not in session_vector_stores
NoStore == [kind |-> "None"]     \* vector_store = None

\* What one attempt to load and embed a source may do:
\*   "ok"         texts were extracted and the upsert succeeded
\*   "empty"      process_pdf / process_image / process_web returned []
\*   "store_fail" the vector-store write raised
FetchOutcomes == {"ok", "empty", "store_fail"}

\* The part of the state an ingestion reads and writes
IngestState(pd, vs, svs, idx) == [pd |-> pd, vs |-> vs, svs |-> svs, idx |-> idx]

\* create_vector_store(..., namespace=ns): the namespace the texts are
\* upserted under and the handle is bound to
UpsertNamespace(ns) == ns

\* embedder.create_vector_store: a handle for the namespace with the texts
\* added, or None when the write raised (the exception is swallowed there).
create_vector_store(idx, ns, src, by, outcome) ==
    IF outcome = "ok"
    THEN [store |-> Store(UpsertNamespace(ns)),
          idx |-> AddDocuments(idx, UpsertNamespace(ns), src, by)]
    ELSE [store |-> NoStore, idx |-> idx]

\* Variant of IngestStreamlit that drops namespace=session_id (every session
\* writes to the default namespace)
IngestStreamlitShared(S, sid, src, outcome) ==
    IF InSeq(src, S.pd) THEN S
    ELSE IF outcome = "empty" \/ ~pinecone_client THEN S
    ELSE LET r == create_vector_store(S.idx, DefaultNamespace, src, sid, outcome)
         IN  [pd  |-> Append(S.pd, src),
              vs  |-> r.store,
              svs |-> [S.svs EXCEPT ![sid] = r.store],
              idx |-> r.idx]

\* Variant of IngestStreamlit without the "not in processed_documents" test
IngestStreamlitUnchecked(S, sid, src, outcome) ==
    IF outcome = "empty" \/ ~pinecone_client THEN S
    ELSE LET r == create_vector_store(S.idx, sid, src, sid, outcome)
         IN  [pd  |-> Append(S.pd, src),
              vs  |-> r.store,
              svs |-> [S.svs EXCEPT ![sid] = r.store],
              idx |-> r.idx]

\* test.py: "if name not in processed_documents: ... if texts and
\* pinecone_client: create_vector_store(namespace=session_id); append".
\* The same block serves the file uploader, the URL box and inline URLs.
IngestStreamlit(S, sid, src, outcome) ==
    IF InSeq(src, S.pd) THEN S
    ELSE IF outcome = "empty" \/ ~pinecone_client THEN S
    ELSE LET r == create_vector_store(S.idx, sid, src, sid, outcome)
         IN  [pd  |-> Append(S.pd, src),
              vs  |-> r.store,
              svs |-> [S.svs EXCEPT ![sid] = r.store],
              idx |-> r.idx]

\* One pass of the script over the two upload widgets (test.py 289-333)
ScriptPass(S, sid, f, u, of, ou) ==
    LET S1 == IF f # None THEN IngestStreamlit(S, sid, f, of) ELSE S
    IN  IF u # None THEN IngestStreamlit(S1, sid, u, ou) ELSE S1

\* The outcome pairs a pass may have in state S when an attempt ends in one
\* of Outs.  For a widget that is empty or holds a registered source nothing
\* is attempted, and one outcome stands for all.
PassOutcomes(S, f, u, Outs) ==
    {o \in FetchOutcomes \X FetchOutcomes :
        /\ IF f = None \/ InSeq(f, S.pd) THEN o[1] = "ok" ELSE o[1] \in Outs
        /\ IF u = None \/ InSeq(u, S.pd) THEN o[2] = "ok" ELSE o[2] \in Outs}

\* test.py get_session_vector_store: the handle kept for the session.  For a
\* session without one the function tries to make it, but the try block
\* reads INDEX_NAME one line before the local import that binds it
\* (UnboundLocalError, caught): None is returned and nothing is kept.
get_session_vector_store(svs, sid) ==
    IF svs[sid] # Absent THEN [store |-> svs[sid], svs |-> svs]
    ELSE [store |-> NoStore, svs |-> svs]

----------------------------------------------------------------------------
(* Sessions on disk *)

NotSaved == [kind |-> "NotSaved"]

\* test.py save_current_session: the dict that is pickled
SessionData(sid, h, pd, ss, uws) ==
    [session_id |-> sid, history |-> h, processed_documents |-> pd,
     search_sources |-> ss, use_web_search |-> uws]

\* test.py get_available_sessions
get_available_sessions(sv) == {s \in SessionIds : sv[s] # NotSaved}

----------------------------------------------------------------------------
(* The Streamlit front-end (src/backend/test.py): session management *)

Cur == IngestState(processed_documents, vector_store, session_vector_stores, index)

\* Every interaction ends in a script run that passes over the upload
\* widgets; Rerun writes the state S that the handler left behind, after
\* that pass.
Rerun(S, sid, f, u, Outs) ==
    \E o \in PassOutcomes(S, f, u, Outs) :
        LET T == ScriptPass(S, sid, f, u, o[1], o[2])
        IN  /\ processed_documents' = T.pd
            /\ vector_store' = T.vs
            /\ session_vector_stores' = T.svs
            /\ index' = T.idx

\* The user puts a file in the uploader, or removes it
UploadFile(f, Outs) ==
    /\ app = "streamlit"
    /\ pc = "idle"
    /\ f \in Files \cup {None}
    /\ f # uploaded_file
    /\ uploaded_file' = f
    /\ Rerun(Cur, chat_session_id, f, web_url, Outs)
    /\ turn' = NoTurn
    /\ last' = [op |-> "upload", by |-> None]
    /\ UNCHANGED <<app, inflight, pc, pinecone_client, chat_session_id, next_id, history,
                   use_web_search, search_sources, web_url, saved, searchVars, serviceVars>>

\* The user types a URL in the sidebar box, or empties it
EnterUrl(u, Outs) ==
    /\ app = "streamlit"
    /\ pc = "idle"
    /\ u \in Urls \cup {None}
    /\ u # web_url
    /\ web_url' = u
    /\ Rerun(Cur, chat_session_id, uploaded_file, u, Outs)
    /\ turn' = NoTurn
    /\ last' = [op |-> "url", by |-> None]
    /\ UNCHANGED <<app, inflight, pc, pinecone_client, chat_session_id, next_id, history,
                   use_web_search, search_sources, uploaded_file, saved, searchVars, serviceVars>>

\* test.py save_current_session
save_current_session(sv) ==
    [sv EXCEPT ![chat_session_id] =
        SessionData(chat_session_id, history, processed_documents,
                    search_sources, use_web_search)]

\* "Save Current Session" button
SaveSession(Outs) ==
    /\ app = "streamlit"
    /\ pc = "idle"
    /\ saved' = save_current_session(saved)
    /\ Rerun(Cur, chat_session_id, uploaded_file, web_url, Outs)
    /\ turn' = NoTurn
    /\ last' = [op |-> "save", by |-> None]
    /\ UNCHANGED <<app, inflight, pc, pinecone_client, chat_session_id, next_id, history,
                   use_web_search, search_sources, uploaded_file, web_url, searchVars, serviceVars>>

\* "New Session" button: save the current session, then start an empty one
NewSession(Outs) ==
    /\ app = "streamlit"
    /\ pc = "idle"
    /\ next_id < MaxSessions
    /\ saved' = save_current_session(saved)
    /\ next_id' = next_id + 1
    /\ chat_session_id' = next_id + 1
    /\ history' = <<>>
    /\ search_sources' = <<>>
    /\ Rerun(IngestState(<<>>, NoStore, session_vector_stores, index),
             next_id + 1, uploaded_file, web_url, Outs)
    /\ turn' = NoTurn
    /\ last' = [op |-> "new", by |-> None]
    /\ UNCHANGED <<app, inflight, pc, pinecone_client, use_web_search, uploaded_file, web_url,
                   searchVars, serviceVars>>

\* test.py load_session: the unpickled record, or None without a file
load_session(sv, s) == sv[s]

\* The session state load_session_data reads and writes, and what it returns
SessionState(ok, sid, h, pd, ss, uws, vs) ==
    [ok |-> ok, chat_session_id |-> sid, history |-> h, processed_documents |-> pd,
     search_sources |-> ss, use_web_search |-> uws, vector_store |-> vs]

CurSession ==
    SessionState(TRUE, chat_session_id, history, processed_documents,
                 search_sources, use_web_search, vector_store)

\* Variant of load_session_data that keeps the current list of sources
load_session_data_keeps_sources(sv, s, cur, svs) ==
    LET d == load_session(sv, s)
    IN  IF d = NotSaved THEN [cur EXCEPT !.ok = FALSE]
        ELSE SessionState(TRUE, d.session_id, d.history, cur.processed_documents,
                          d.search_sources, d.use_web_search,
                          get_session_vector_store(svs, d.session_id).store)

\* test.py load_session_data: the state cur after loading s; without a
\* record nothing is changed and False is returned
load_session_data(sv, s, cur, svs) ==
    LET d == load_session(sv, s)
    IN  IF d = NotSaved THEN [cur EXCEPT !.ok = FALSE]
        ELSE SessionState(TRUE, d.session_id, d.history, d.processed_documents,
                          d.search_sources, d.use_web_search,
                          get_session_vector_store(svs, d.session_id).store)

\* "Load Selected Session" button: load_session_data, then the rerun (when
\* nothing was loaded the run goes on to the upload widgets itself)
LoadSession(s, Outs) ==
    /\ app = "streamlit"
    /\ pc = "idle"
    /\ s \in SessionIds
    /\ LET r == load_session_data(saved, s, CurSession, session_vector_stores)
           g == get_session_vector_store(session_vector_stores, r.chat_session_id)
       IN  /\ chat_session_id' = r.chat_session_id
           /\ history' = r.history
           /\ search_sources' = r.search_sources
           /\ use_web_search' = r.use_web_search
           /\ Rerun(IngestState(r.processed_documents, r.vector_store,
                                IF r.ok THEN g.svs ELSE session_vector_stores, index),
                    r.chat_session_id, uploaded_file, web_url, Outs)
           /\ last' = [op |-> "load", by |-> None, id |-> s, ok |-> r.ok]
    /\ turn' = NoTurn
    /\ UNCHANGED <<app, inflight, pc, pinecone_client, next_id, uploaded_file, web_url, saved,
                   searchVars, serviceVars>>

\* "Clear Chat History" button
ClearChat(Outs) ==
    /\ app = "streamlit"
    /\ pc = "idle"
    /\ history' = <<>>
    /\ search_sources' = <<>>
    /\ Rerun(Cur, chat_session_id, uploaded_file, web_url, Outs)
    /\ turn' = NoTurn
    /\ last' = [op |-> "clear", by |-> None]
    /\ UNCHANGED <<app, inflight, pc, pinecone_client, chat_session_id, next_id, use_web_search,
                   uploaded_file, web_url, saved, searchVars, serviceVars>>

\* The "Enable Google Search" checkbox
ToggleWebSearch(Outs) ==
    /\ app = "streamlit"
    /\ pc = "idle"
    /\ use_web_search' = ~use_web_search
    /\ Rerun(Cur, chat_session_id, uploaded_file, web_url, Outs)
    /\ turn' = NoTurn
    /\ last' = [op |-> "toggle", by |-> None]
    /\ UNCHANGED <<app, inflight, pc, pinecone_client, chat_session_id, next_id, history,
                   search_sources, uploaded_file, web_url, saved, searchVars, serviceVars>>

----------------------------------------------------------------------------
(* Web search (src/backend/search.py) *)

MaxText       == 2   \* tokens of a response text
MaxCandidates == 2   \* candidates of a response

LinkUrls == {"http://l1.io", "http://l2.io"}

\* The tokens of a response text: a word, a URL, a URL followed by a full
\* stop, and a URL that is too short to pass the validity filter.
TextTokens == {"word", "http://l1.io", "http://l1.io.", "http://x"}

SeqsUpTo(S, n) == UNION {[1..k -> S] : k \in 0..n}

\* One candidate of a provider response: the URLs of its citation metadata
\* and the URIs of its grounding chunks, in the provider's order.
Candidate(cit, gr) == [citations |-> cit, grounding |-> gr]

Candidates ==
    {Candidate(cit, gr) : cit \in {<<>>, <<"http://l1.io">>},
                          gr \in {<<>>, <<"http://l1.io">>, <<"http://l2.io">>}}

\* A provider response.  kind = "error": generate_content raised;
\* kind = "malformed": walking the metadata or reading .text raised.
Response(kind, text, cands) == [kind |-> kind, text |-> text, candidates |-> cands]

Responses ==
    {Response("error", <<>>, <<>>), Response("malformed", <<>>, <<>>)}
    \cup {Response("ok", t, c) : t \in SeqsUpTo(TextTokens, MaxText),
                                 c \in SeqsUpTo(Candidates, MaxCandidates)}

SearchResult(text, links) == [text |-> text, links |-> links]

\* An exception that reaches the caller instead of a result
Raised == [raised |-> TRUE]

RECURSIVE CandidateLinks(_)
\* search.py 34-46: per candidate, citation URLs then grounding URIs, appended
CandidateLinks(cands) ==
    IF cands = <<>> THEN <<>>
    ELSE Head(cands).citations \o Head(cands).grounding \o CandidateLinks(Tail(cands))

\* Variant of google_search without the try/except
google_search_unguarded(r) ==
    IF r.kind # "ok" THEN Raised
    ELSE SearchResult(r.text, CandidateLinks(r.candidates))

\* search.py google_search: (response.text, links), or ("", []) on any exception
google_search(r) ==
    IF r.kind # "ok" THEN SearchResult(<<>>, <<>>)
    ELSE SearchResult(r.text, CandidateLinks(r.candidates))

\* search.py 76: the matches of r'https?://[^\s()<>"\']+'
IsUrlToken(t) == t \in {"http://l1.io", "http://l1.io.", "http://x"}

\* search.py 82-84: trailing punctuation is removed
StripTrailing(t) == IF t = "http://l1.io." THEN "http://l1.io" ELSE t

\* search.py 87: len(url) > 10 and '.' in url
LooksValid(u) == u # "http://x"

RECURSIVE extract_urls_from_response(_)
\* search.py extract_urls_from_response: every match that passes the filter
extract_urls_from_response(text) ==
    IF text = <<>> THEN <<>>
    ELSE (IF IsUrlToken(Head(text)) /\ LooksValid(StripTrailing(Head(text)))
          THEN <<StripTrailing(Head(text))>> ELSE <<>>)
         \o extract_urls_from_response(Tail(text))

\* search.py enhanced_google_search: the regex fallback when no link was found
enhanced_google_search(r) ==
    LET g == google_search(r)
    IN  IF g = Raised THEN SearchResult(<<>>, <<>>)
        ELSE IF g.links = <<>> /\ g.text # <<>>
                /\ extract_urls_from_response(g.text) # <<>>
             THEN SearchResult(g.text, extract_urls_from_response(g.text))
             ELSE g

\* No search function has been called on resp
NoCall == [fn |-> "none"]

\* google_search(query) is called; the provider answers resp
GoogleSearch ==
    /\ app = "search"
    /\ out' = [fn |-> "google_search", result |-> google_search(resp)]
    /\ UNCHANGED <<resp, appVars, serviceVars>>

\* enhanced_google_search(query) is called; the provider answers resp
EnhancedGoogleSearch ==
    /\ app = "search"
    /\ out' = [fn |-> "enhanced_google_search", result |-> enhanced_google_search(resp)]
    /\ UNCHANGED <<resp, appVars, serviceVars>>

\* test.py 23 and 486, main.py 19 and 204: the search function that the chat
\* script and the /chat handler import and call
PipelineSearch == "google_search"

----------------------------------------------------------------------------
(* URL detection (src/backend/agents/writeragents.py test_url_detector) *)

\* The strings a query or the model's answer may hold
HttpUrls    == {"https://www.u1.com", "https://u1.com"}
WwwUrls     == {"www.u1.com"}
BareDomains == {"u1.com"}
UrlStrings  == HttpUrls \cup WwwUrls \cup BareDomains \cup {"not a url"}
QueryTokens == {"word", "https://www.u1.com", "www.u1.com"}

\* writeragents.py 133-137: url_pattern.findall(query), the http(s):// and
\* www. matches in the order of the query
regex_urls(query) == SelectSeq(query, LAMBDA t : t \in HttpUrls \cup WwwUrls)

\* 'https://' + url
WithHttps(u) ==
    IF u = "www.u1.com" THEN "https://www.u1.com"
    ELSE IF u = "u1.com" THEN "https://u1.com"
    ELSE u

RECURSIVE validated_urls(_)
\* writeragents.py 187-196: keep http(s) urls, prefix www. urls and strings
\* that look like a domain, drop the rest
validated_urls(all_urls) ==
    IF all_urls = <<>> THEN <<>>
    ELSE LET u == Head(all_urls)
         IN  (IF u \in HttpUrls THEN <<u>>
              ELSE IF u \in WwwUrls \cup BareDomains THEN <<WithHttps(u)>>
              ELSE <<>>)
             \o validated_urls(Tail(all_urls))

\* What the detection model did: "ok" its JSON was parsed (urls), "unparsable"
\* json.loads failed or there was no text, "raise" the call raised
Detection(kind, urls) == [kind |-> kind, urls |-> urls]

Detections ==
    {Detection("unparsable", <<>>), Detection("raise", <<>>)}
    \cup {Detection("ok", u) : u \in SeqsUpTo(UrlStrings, MaxAiUrls)}

DetectInput(query, ai) == [query |-> query, ai |-> ai]

DetectInputs ==
    {DetectInput(q, a) : q \in SeqsUpTo(QueryTokens, MaxQuery), a \in Detections}

\* test_url_detector: the url lists it may return.  list(set(...)) puts the
\* urls in an order of its own, any order may come out.
test_url_detector(query, ai) ==
    IF ai.kind = "ok"
    THEN {validated_urls(l) : l \in Perms(SeqToSet(ai.urls \o regex_urls(query)))}
    ELSE {regex_urls(query)}

\* test_url_detector(query) is called
TestUrlDetector ==
    /\ app = "detect"
    /\ \E r \in test_url_detector(resp.query, resp.ai) :
          out' = [fn |-> "test_url_detector", result |-> r]
    /\ UNCHANGED <<resp, appVars, serviceVars>>

\* The provider responses a chat turn is run against
TurnResponses ==
    { Response("error", <<>>, <<>>),
      Response("ok", <<>>, <<>>),
      Response("ok", <<"web text">>, <<>>),
      Response("ok", <<"web text">>,
               << Candidate(<<"http://l1.io">>, <<"http://l1.io">>) >>) }

----------------------------------------------------------------------------
(* Document lookup *)

K == 5      \* search_kwargs {"k": 5}

RECURSIVE Rep(_, _)
Rep(x, n) == IF n = 0 THEN <<>> ELSE <<x>> \o Rep(x, n - 1)

RECURSIVE ChunksBy(_, _, _, _)
\* the stored chunks of one source in one namespace, whoever ingested them
ChunksBy(idx, ns, src, by) ==
    IF by > MaxIngester THEN <<>>
    ELSE Rep(Chunk(ns, src, by), Copies(idx, Chunk(ns, src, by)))
         \o ChunksBy(idx, ns, src, by + 1)

RECURSIVE Ranked(_, _, _, _)
Ranked(idx, ns, rel, i) ==
    IF i > Len(SourceOrder) THEN <<>>
    ELSE (IF SourceOrder[i] \in rel THEN ChunksBy(idx, ns, SourceOrder[i], 1) ELSE <<>>)
         \o Ranked(idx, ns, rel, i + 1)

FirstK(s) == SubSeq(s, 1, IF Len(s) < K THEN Len(s) ELSE K)

\* retriever.invoke(query) on namespace ns: the chunks of ns that score at
\* least the threshold for the query (those of the sources in rel), at most K
Retrieve(idx, ns, rel) == FirstK(Ranked(idx, ns, rel, 1))

\* embedder.check_document_relevance: nothing without a store
check_document_relevance(idx, store, ns, rel) ==
    IF store = NoStore THEN <<>> ELSE Retrieve(idx, ns, rel)

\* The namespace a lookup may search: the one passed as namespace= and the
\* one the store handle was made for.
SearchedNamespaces(store, ns) == {ns, store.namespace}

\* the sources that have a chunk in namespace ns
SourcesIn(idx, ns) == {c.src : c \in {d \in idx.stored : d.ns = ns}}

----------------------------------------------------------------------------
(* Context assembly *)

Sep             == "\n\n"
AdditionalLabel == "--- Additional Information from Google Search ---"
GoogleLabel     == "Google Search Results:"

PageContent(c) == c.src

RECURSIVE JoinDocs(_)
\* "\n\n".join([d.page_content for d in docs])
JoinDocs(docs) ==
    IF docs = <<>> THEN <<>>
    ELSE IF Len(docs) = 1 THEN <<PageContent(docs[1])>>
    ELSE <<PageContent(docs[1]), Sep>> \o JoinDocs(Tail(docs))

\* Variant of should_use_web_search without the force disjunct
should_use_web_search_unforced(force, docs, uws, intent) ==
    \/ (docs = <<>> /\ uws /\ intent)
    \/ (uws /\ intent)

\* test.py 472-476
should_use_web_search(force, docs, uws, intent) ==
    \/ force
    \/ (docs = <<>> /\ uws /\ intent)
    \/ (uws /\ intent)

\* Variant of MergeWeb that puts the web text first
MergeWebFirst(context, res) ==
    IF res.text = <<>> THEN context
    ELSE IF context # <<>>
         THEN res.text \o <<Sep, AdditionalLabel, Sep>> \o context
         ELSE <<GoogleLabel, "\n">> \o res.text

\* test.py 487-492: the context after a web search that returned res
MergeWeb(context, res) ==
    IF res.text = <<>> THEN context
    ELSE IF context # <<>>
         THEN context \o <<Sep, AdditionalLabel, Sep>> \o res.text
         ELSE <<GoogleLabel, "\n">> \o res.text

----------------------------------------------------------------------------
(* The Streamlit front-end: one chat turn (test.py 360-533).  The script   *)
(* runs the steps in this order, pc says which is next; nothing else runs  *)
(* until the turn is over.                                                 *)

UserMessage      == [role |-> "user", content |-> "prompt"]
AssistantMessage == [role |-> "assistant", content |-> "response"]

NoResult == SearchResult(<<>>, <<>>)

\* Variant of AppendMessage that puts the message in front
PrependMessage(h, m) == <<m>> \o h

\* test.py 376, 526: st.session_state.history.append({...})
AppendMessage(h, m) == Append(h, m)

\* Variant of full_prompt that always writes the Context block
full_prompt_always_context(context, links) ==
    <<"Context:">> \o context \o <<"Original Question:", "Rewritten Question:">>
    \o (IF links # <<>> THEN <<"Source Links:">> \o links ELSE <<>>)
    \o <<"Please provide a comprehensive answer">>

\* test.py 507-520, main.py 211-223: the prompt handed to the RAG agent
full_prompt(context, links) ==
    IF context # <<>>
    THEN <<"Context:">> \o context \o <<"Original Question:", "Rewritten Question:">>
         \o (IF links # <<>> THEN <<"Source Links:">> \o links ELSE <<>>)
         \o <<"Please provide a comprehensive answer">>
    ELSE <<"Original Question:", "Rewritten Question:">>

\* The locals of the turn (context, search_links, docs, ...) and what it did
NewTurn(sid, force, uws0, urls) ==
    [kind |-> "chat", sid |-> sid, by |-> sid, force |-> force, uws_start |-> uws0,
     urls |-> urls, new_urls |-> {}, url_fault |-> FALSE, url_ok |-> {},
     ingested |-> {}, shown |-> <<>>,
     intent |-> FALSE,
     doc_lookup |-> FALSE, doc_ns |-> sid, doc_store |-> NoStore, in_ns |-> {},
     docs |-> <<>>, web_lookup |-> FALSE, web |-> NoResult, context |-> <<>>,
     prompt |-> <<>>, outcome |-> "running"]

\* test.py 371-373: adopt the session's store when there is one
AdoptSessionStore(S, sid) ==
    LET g == get_session_vector_store(S.svs, sid)
    IN  [S EXCEPT !.vs = IF g.store # NoStore THEN g.store ELSE @, !.svs = g.svs]

\* Variant of ClearedAtSubmit that keeps the links of the turn before
KeptAtSubmit(old) == old

\* test.py 364: st.session_state.search_sources = []
ClearedAtSubmit(old) == <<>>

\* test.py 360-376: the form is submitted.  The run first passes over the
\* upload widgets, then clears the displayed sources, adopts the session's
\* store and appends the user message.  urls is what test_url_detector finds.
\* shown is what was displayed when the form was submitted.  The turn is
\* taken while the history has room for it below cap.
SubmitUpTo(cap, force, urls, Outs) ==
    /\ app = "streamlit"
    /\ pc = "idle"
    /\ Len(history) + 2 <= cap
    /\ \E o \in PassOutcomes(Cur, uploaded_file, web_url, Outs) :
       LET sid == chat_session_id
           S0  == ScriptPass(Cur, sid, uploaded_file, web_url, o[1], o[2])
           S1  == AdoptSessionStore(S0, sid)
       IN  /\ processed_documents' = S1.pd
           /\ vector_store' = S1.vs
           /\ session_vector_stores' = S1.svs
           /\ index' = S1.idx
    /\ search_sources' = ClearedAtSubmit(search_sources)
    /\ history' = AppendMessage(history, UserMessage)
    /\ turn' = [NewTurn(chat_session_id, force, use_web_search, urls) EXCEPT
                   !.shown = search_sources]
    /\ pc' = "urls"
    /\ last' = [op |-> "chat", by |-> None]
    /\ UNCHANGED <<app, inflight, pinecone_client, chat_session_id, next_id, use_web_search,
                   uploaded_file, web_url, saved, searchVars, serviceVars>>

Submit(force, urls, Outs) == SubmitUpTo(MaxHistory, force, urls, Outs)

\* Ingesting an inline URL may also raise; the loop's try/except
\* (test.py 380, 405) then ends the whole URL step.
UrlOutcomes == FetchOutcomes \cup {"raise"}

\* The outcome sequences the URL step may have for the detected urls (one
\* outcome stands for all where the url is registered: nothing is attempted)
UrlOutcomeSeqs(S, urls, Outs) ==
    {uo \in [1..Len(urls) -> UrlOutcomes] :
        \A i \in 1..Len(urls) :
            IF InSeq(urls[i], S.pd) THEN uo[i] = "ok" ELSE uo[i] \in Outs}

\* The detected urls that are not registered when the URL step starts
NewUrls(S, urls) == {u \in SeqToSet(urls) : ~InSeq(u, S.pd)}

\* Did the fetch, the embedding or the store write of one of them fail
UrlFault(S, urls, uo) ==
    \E i \in 1..Len(urls) : ~InSeq(urls[i], S.pd) /\ uo[i] # "ok"

\* The unregistered urls whose fetch and store write do not fail
UrlsFetched(S, urls, uo) ==
    {urls[i] : i \in {j \in 1..Len(urls) : ~InSeq(urls[j], S.pd) /\ uo[j] = "ok"}}

\* Variant of IngestUrls that leaves the detected urls for later
IngestUrlsLater(S, sid, urls, uo, i) == S

RECURSIVE IngestUrls(_, _, _, _, _)
\* test.py 388-403: for url in detected_urls: ingest it unless already there
IngestUrls(S, sid, urls, uo, i) ==
    IF i > Len(urls) THEN S
    ELSE IF ~InSeq(urls[i], S.pd) /\ uo[i] = "raise" THEN S
    ELSE IngestUrls(IngestStreamlit(S, sid, urls[i], uo[i]), sid, urls, uo, i + 1)

\* test.py 379-406: the inline URL step
IngestDetected(Outs) ==
    /\ app = "streamlit"
    /\ pc = "urls"
    /\ \E uo \in UrlOutcomeSeqs(Cur, turn.urls, Outs) :
       LET S == IngestUrls(Cur, chat_session_id, turn.urls, uo, 1)
       IN  /\ processed_documents' = S.pd
           /\ vector_store' = S.vs
           /\ session_vector_stores' = S.svs
           /\ index' = S.idx
           /\ turn' = [turn EXCEPT
                          !.new_urls = NewUrls(Cur, turn.urls),
                          !.url_fault = UrlFault(Cur, turn.urls, uo),
                          !.url_ok = UrlsFetched(Cur, turn.urls, uo),
                          !.ingested = SeqToSet(S.pd) \ SeqToSet(processed_documents)]
    /\ pc' = "intent"
    /\ UNCHANGED <<app, inflight, pinecone_client, chat_session_id, next_id, history,
                   use_web_search, search_sources, uploaded_file, web_url, saved,
                   last, searchVars, serviceVars>>

\* test.py 435-437: a detected intent switches the toggle on
IntentToggle(uws, intent) == uws \/ intent

\* test.py 410-441: query rewrite, then intent detection (intent is FALSE
\* also when the detector raised)
DetectIntent(intent) ==
    /\ app = "streamlit"
    /\ pc = "intent"
    /\ use_web_search' = IntentToggle(use_web_search, intent)
    /\ turn' = [turn EXCEPT !.intent = intent]
    /\ pc' = "docs"
    /\ UNCHANGED <<app, inflight, pinecone_client, chat_session_id, next_id, history,
                   processed_documents, vector_store, session_vector_stores,
                   search_sources, uploaded_file, web_url, saved, index, last,
                   searchVars, serviceVars>>

\* Variant of DocLookupRuns that ignores force_web_search
DocLookupIgnoresForce(force, store) == store # NoStore

\* test.py 444, main.py 190: is the document lookup run
DocLookupRuns(force, store) == ~force /\ store # NoStore

\* test.py 443-466: the document lookup.  A raise of
\* check_document_relevance is caught nowhere: the script run ends.
DocLookup ==
    /\ app = "streamlit"
    /\ pc = "docs"
    /\ IF DocLookupRuns(turn.force, vector_store)
       THEN \E ns \in SearchedNamespaces(vector_store, chat_session_id) :
            \E rel \in SUBSET SourcesIn(index, ns) :
            \E raised \in BOOLEAN :
               LET docs == check_document_relevance(index, vector_store, ns, rel)
               IN  IF raised
                   THEN /\ turn' = [turn EXCEPT !.doc_lookup = TRUE, !.doc_ns = ns,
                                       !.doc_store = vector_store,
                                       !.in_ns = SourcesIn(index, ns),
                                       !.outcome = "doc_error"]
                        /\ pc' = "idle"
                   ELSE /\ turn' = [turn EXCEPT !.doc_lookup = TRUE, !.doc_ns = ns,
                                       !.doc_store = vector_store,
                                       !.in_ns = SourcesIn(index, ns),
                                       !.docs = docs, !.context = JoinDocs(docs)]
                        /\ pc' = "web"
       ELSE /\ turn' = turn
            /\ pc' = "web"
    /\ UNCHANGED <<app, inflight, pinecone_client, chat_session_id, next_id, history,
                   processed_documents, vector_store, session_vector_stores,
                   use_web_search, search_sources, uploaded_file, web_url, saved,
                   index, last, searchVars, serviceVars>>

\* test.py 498: the links kept for display
KeptSources(old, res) == IF res.text # <<>> THEN res.links ELSE old

\* test.py 468-500: the web search and the merge
WebLookup ==
    /\ app = "streamlit"
    /\ pc = "web"
    /\ IF should_use_web_search(turn.force, turn.docs, use_web_search, turn.intent)
       THEN \E r \in TurnResponses :
               LET res == google_search(r)
               IN  /\ turn' = [turn EXCEPT !.web_lookup = TRUE, !.web = res,
                                  !.context = MergeWeb(turn.context, res)]
                   /\ search_sources' = KeptSources(search_sources, res)
       ELSE /\ turn' = turn
            /\ search_sources' = search_sources
    /\ pc' = "generate"
    /\ UNCHANGED <<app, inflight, pinecone_client, chat_session_id, next_id, history,
                   processed_documents, vector_store, session_vector_stores,
                   use_web_search, uploaded_file, web_url, saved, index, last,
                   searchVars, serviceVars>>

\* test.py 502-533: the answer is generated and appended, unless the agent
\* raised (caught, shown); then st.rerun()
Generate(gen_ok, Outs) ==
    /\ app = "streamlit"
    /\ pc = "generate"
    /\ history' = IF gen_ok THEN AppendMessage(history, AssistantMessage) ELSE history
    /\ turn' = [turn EXCEPT !.prompt = full_prompt(turn.context, turn.web.links),
                             !.outcome = IF gen_ok THEN "answered" ELSE "gen_error"]
    /\ Rerun(Cur, chat_session_id, uploaded_file, web_url, Outs)
    /\ pc' = "idle"
    /\ UNCHANGED <<app, inflight, pinecone_client, chat_session_id, next_id, use_web_search,
                   search_sources, uploaded_file, web_url, saved, last, searchVars, serviceVars>>

----------------------------------------------------------------------------
(* The FastAPI service (src/backend/main.py).  One app_state serves every  *)
(* caller.  Handlers run on one event loop: a handler is atomic except     *)
(* where it awaits, which process_document does between its check and its  *)
(* write.                                                                  *)

streamlitVars == <<chat_session_id, next_id, history, session_vector_stores,
                   use_web_search, search_sources, uploaded_file, web_url, saved>>

\* app_state, with the flag that the handler's try block raised
ApiState(pd, vs, idx) == [pd |-> pd, vs |-> vs, idx |-> idx, error |-> FALSE]

CurApi == ApiState(processed_documents, vector_store, index)

\* main.py 127-132, 147-152, 174-179: "if texts and pinecone_client: ..."
IngestWriteApi(S, src, by, outcome) ==
    IF outcome = "raise" THEN [S EXCEPT !.error = TRUE]
    ELSE IF outcome = "empty" \/ ~pinecone_client THEN S
    ELSE IF S.vs # NoStore
         THEN IF outcome = "ok"
              THEN [S EXCEPT !.idx = AddDocuments(@, S.vs.namespace, src, by),
                             !.pd = Append(@, src)]
              ELSE [S EXCEPT !.error = TRUE]
         ELSE LET r == create_vector_store(S.idx, DefaultNamespace, src, by, outcome)
              IN  [S EXCEPT !.vs = r.store, !.idx = r.idx, !.pd = Append(@, src)]

\* main.py 142-143, 172: nothing is done for a source that is registered
IngestApi(S, src, by, outcome) ==
    IF InSeq(src, S.pd) THEN S ELSE IngestWriteApi(S, src, by, outcome)

\* The response of an ingestion endpoint
SourceResponse(op, c, src, S) ==
    [op |-> op, by |-> c, src |-> src, status |-> IF S.error THEN 500 ELSE 200,
     sources |-> IF S.error THEN <<>> ELSE S.pd]

\* A handler starts when the event loop is free (no handler is running); if
\* requests do not overlap, also no upload is suspended
ApiReady(Overlap) == pc = "idle" /\ (Overlap \/ inflight = {})

\* main.py 99-110: process_document up to "await file.read()"
ReceiveDocument(c, f, Overlap) ==
    /\ app = "api"
    /\ ApiReady(Overlap)
    /\ <<c, f>> \notin inflight
    /\ IF InSeq(f, processed_documents)
       THEN /\ inflight' = inflight
            /\ last' = SourceResponse("document", c, f, CurApi)
       ELSE /\ inflight' = inflight \cup {<<c, f>>}
            /\ last' = [op |-> "receive", by |-> c, src |-> f]
    /\ turn' = NoTurn
    /\ UNCHANGED <<app, pc, pinecone_client, processed_documents, vector_store, index,
                   streamlitVars, searchVars, serviceVars>>

\* main.py 112-136: process_document after the await
FinishDocument(c, f, Outs) ==
    /\ app = "api"
    /\ pc = "idle"
    /\ <<c, f>> \in inflight
    /\ \E outcome \in Outs :
       LET S == IngestWriteApi(CurApi, f, c, outcome)
       IN  /\ processed_documents' = S.pd
           /\ vector_store' = S.vs
           /\ index' = S.idx
           /\ last' = SourceResponse("document", c, f, S)
    /\ inflight' = inflight \ {<<c, f>>}
    /\ turn' = NoTurn
    /\ UNCHANGED <<app, pc, pinecone_client, streamlitVars, searchVars, serviceVars>>

\* main.py 138-156: process_url
ProcessUrl(c, u, Outs, Overlap) ==
    /\ app = "api"
    /\ ApiReady(Overlap)
    /\ \E outcome \in (IF InSeq(u, processed_documents) THEN {"ok"} ELSE Outs) :
       LET S == IngestApi(CurApi, u, c, outcome)
       IN  /\ processed_documents' = S.pd
           /\ vector_store' = S.vs
           /\ index' = S.idx
           /\ last' = SourceResponse("url", c, u, S)
    /\ turn' = NoTurn
    /\ UNCHANGED <<app, pc, pinecone_client, inflight, streamlitVars, searchVars, serviceVars>>

\* main.py 252-255: get_sources
GetSources(c, Overlap) ==
    /\ app = "api"
    /\ ApiReady(Overlap)
    /\ last' = SourceResponse("sources", c, None, CurApi)
    /\ turn' = NoTurn
    /\ UNCHANGED <<app, pc, pinecone_client, processed_documents, vector_store, index,
                   inflight, streamlitVars, searchVars, serviceVars>>

RECURSIVE IngestUrlsApi(_, _, _, _, _)
\* main.py 171-179: for url in detected_urls; a raise leaves the loop
IngestUrlsApi(S, c, urls, uo, i) ==
    IF i > Len(urls) \/ S.error THEN S
    ELSE IngestUrlsApi(IngestApi(S, urls[i], c, uo[i]), c, urls, uo, i + 1)

\* main.py 203: is the web search run
ApiSearchRuns(force, context) == force \/ context = <<>>

\* main.py 205-206: web text replaces the context
ApiMergeWeb(context, res) ==
    IF res.text # <<>> THEN <<GoogleLabel, "\n">> \o res.text ELSE context

\* main.py 238-246: the links of the search are listed in the response
ChatResponse(c, t) ==
    [op |-> "chat", by |-> c, status |-> IF t.outcome = "answered" THEN 200 ELSE 500,
     links |-> IF t.outcome = "answered" THEN t.web.links ELSE <<>>]

\* A raise anywhere in the handler's try block ends it with an HTTP 500
ApiRaise(t, outcome) ==
    /\ turn' = [t EXCEPT !.outcome = outcome]
    /\ last' = ChatResponse(t.by, turn')
    /\ pc' = "idle"

\* main.py 158-179: chat, up to the end of the URL loop.  The handler does
\* not await: its steps follow each other with nothing in between.
ApiChat(c, force, urls, Outs, Overlap) ==
    /\ app = "api"
    /\ ApiReady(Overlap)
    /\ \E uo \in UrlOutcomeSeqs(CurApi, urls, Outs) :
       LET S == IngestUrlsApi(CurApi, c, urls, uo, 1)
           t == [NewTurn(DefaultNamespace, force, use_web_search, urls) EXCEPT
                    !.kind = "api", !.by = c,
                    !.new_urls = NewUrls(CurApi, urls),
                    !.url_fault = UrlFault(CurApi, urls, uo),
                    !.url_ok = UrlsFetched(CurApi, urls, uo),
                    !.ingested = SeqToSet(S.pd) \ SeqToSet(processed_documents)]
       IN  /\ processed_documents' = S.pd
           /\ vector_store' = S.vs
           /\ index' = S.idx
           /\ IF S.error THEN ApiRaise(t, "url_error")
              ELSE /\ turn' = t
                   /\ last' = [op |-> "chat", by |-> c]
                   /\ pc' = "api_docs"
    /\ UNCHANGED <<app, pinecone_client, inflight, streamlitVars, searchVars, serviceVars>>

\* main.py 190-200: the document lookup of /chat
ApiDocLookup ==
    /\ app = "api"
    /\ pc = "api_docs"
    /\ IF DocLookupRuns(turn.force, vector_store)
       THEN LET ns == vector_store.namespace
            IN  \E rel \in SUBSET SourcesIn(index, ns), raised \in BOOLEAN :
                LET docs == check_document_relevance(index, vector_store, ns, rel)
                    t    == [turn EXCEPT !.doc_lookup = TRUE, !.doc_ns = ns,
                                !.doc_store = vector_store,
                                !.in_ns = SourcesIn(index, ns)]
                IN  IF raised THEN ApiRaise(t, "doc_error")
                    ELSE /\ turn' = [t EXCEPT !.docs = docs, !.context = JoinDocs(docs)]
                         /\ pc' = "api_web"
                         /\ last' = last
       ELSE /\ turn' = turn
            /\ pc' = "api_web"
            /\ last' = last
    /\ UNCHANGED <<app, pinecone_client, processed_documents, vector_store, index,
                   inflight, streamlitVars, searchVars, serviceVars>>

\* main.py 203-250: the web search of /chat, the answer and the response
ApiWebLookup(gen_ok) ==
    /\ app = "api"
    /\ pc = "api_web"
    /\ IF ApiSearchRuns(turn.force, turn.context)
       THEN \E r \in TurnResponses :
               turn' = [turn EXCEPT !.web_lookup = TRUE, !.web = google_search(r),
                           !.context = ApiMergeWeb(@, google_search(r)),
                           !.prompt = full_prompt(ApiMergeWeb(turn.context, google_search(r)),
                                                  google_search(r).links),
                           !.outcome = IF gen_ok THEN "answered" ELSE "gen_error"]
       ELSE turn' = [turn EXCEPT !.prompt = full_prompt(turn.context, <<>>),
                                 !.outcome = IF gen_ok THEN "answered" ELSE "gen_error"]
    /\ last' = ChatResponse(turn.by, turn')
    /\ pc' = "idle"
    /\ UNCHANGED <<app, pinecone_client, processed_documents, vector_store, index,
                   inflight, streamlitVars, searchVars, serviceVars>>

\* A /chat request whose inputs are drawn from the given sets
ApiChatTurn(Forces, UrlLists, GenOks, Outs, Overlap) ==
    \/ \E c \in Callers, force \in Forces, urls \in UrlLists :
          ApiChat(c, force, urls, Outs, Overlap)
    \/ ApiDocLookup
    \/ \E gen_ok \in GenOks : ApiWebLookup(gen_ok)

----------------------------------------------------------------------------
(* The chat service with persisted histories (src/backend/test1/main.py) *)

ChatIds  == 1..MaxChats
Messages == {"q1", "q2"}
NoFile   == [kind |-> "NoFile"]

\* The two history entries of one exchange: what was sent (the message, with
\* the document context in front if there is one) and the model's reply
Exchange(m, ctx) ==
    << [role |-> "user", parts |-> m, context |-> ctx],
       [role |-> "model", parts |-> m, context |-> ctx] >>

\* test1/main.py 115-118: current_history, the entries of this request alone
current_history(m) == Exchange(m, FALSE)

\* test1/main.py save_chat_history: open(..., 'w'); json.dump(history, f)
save_chat_history(files, c, h) == [files EXCEPT ![c] = h]

\* test1/main.py load_chat_history: [] without a file
load_chat_history(files, c) == IF files[c] = NoFile THEN <<>> ELSE files[c]

\* test1/main.py 94-98: the ChatSession of c, started from the file on first use
SessionOf(c) ==
    IF chat_sessions[c] = Absent THEN load_chat_history(chat_files, c)
    ELSE chat_sessions[c]

\* POST /chat: ok = send_message returned (otherwise HTTP 429 / 500)
Chat1(c, m, ok) ==
    /\ app = "chat1"
    /\ Len(exchanges[c]) < MaxTurns
    /\ IF ok
       THEN /\ chat_sessions' = [chat_sessions EXCEPT
                                   ![c] = SessionOf(c) \o Exchange(m, c \in document_context)]
            /\ chat_files' = save_chat_history(chat_files, c, current_history(m))
            /\ exchanges' = [exchanges EXCEPT ![c] = Append(@, m)]
       ELSE /\ chat_sessions' = [chat_sessions EXCEPT ![c] = SessionOf(c)]
            /\ UNCHANGED <<chat_files, exchanges>>
    /\ UNCHANGED <<document_context, appVars, searchVars, curriculumVars>>

\* POST /chat/upload-document?chat_id=c: the context is kept, the session is
\* started again from the file and sent the automatic question (ok = the
\* model answered it; otherwise the handler returns success: False)
UploadDocument1(c, ok) ==
    /\ app = "chat1"
    /\ document_context' = document_context \cup {c}
    /\ chat_sessions' = [chat_sessions EXCEPT
                            ![c] = load_chat_history(chat_files, c)
                                   \o (IF ok THEN Exchange("auto", FALSE) ELSE <<>>)]
    /\ UNCHANGED <<chat_files, exchanges, appVars, searchVars, curriculumVars>>

\* The process is started again: the dictionaries are empty, the files stay
Restart1 ==
    /\ app = "chat1"
    /\ chat_sessions' = [c \in ChatIds |-> Absent]
    /\ document_context' = {}
    /\ UNCHANGED <<chat_files, exchanges, appVars, searchVars, curriculumVars>>

----------------------------------------------------------------------------
(* The curriculum and knowledge services over the table curriculum_steps  *)
(* (curriculum_service.py, knowledge_service.py, utils/curriculum_utils.py, *)
(* coordinator_agent.py).  A row is kept as its step_id, the key and the   *)
(* titles of its overview, and the keys of its detailed_content.           *)

CurriculumIds == 1..MaxCurricula
StepTitles    == {"a", "b"}
StepLists     == UNION {[1..n -> StepTitles] : n \in 0..MaxSteps}
StepIndexes   == 0..(MaxSteps - 1)

NoRow == [kind |-> "NoRow"]

Row(id, key, names, dc) ==
    [step_id |-> id, key |-> key, names |-> names, detailed_content |-> dc]

\* .eq("step_id", id)
RowsOf(id) == {r \in curriculum_steps : r.step_id = id}

\* curriculum_utils.py save_curriculum_step: insert(data); an insert the
\* table rejects raises, which is caught (return False)
save_curriculum_step(table, row) ==
    IF unique_step_id /\ \E r \in table : r.step_id = row.step_id
    THEN table
    ELSE table \cup {row}

\* curriculum_utils.py get_curriculum_step: response.data[0], any of the rows
\* of the id, or None (NoRow)
get_curriculum_step(id) == IF RowsOf(id) = {} THEN {NoRow} ELSE RowsOf(id)

\* curriculum_utils.py get_all_curriculum_steps, as the ids get_all_curriculums lists
get_all_curriculums == {r.step_id : r \in curriculum_steps}

\* overview.get("topics", []) and topic.get("name") of the readers
topics(r) == IF r.key = "topics" THEN r.names ELSE <<>>

\* coordinator_agent.py coordinate: a new uuid, overview {"topics": key_concepts}
Coordinate(id, names) ==
    /\ app = "curriculum"
    /\ RowsOf(id) = {}
    /\ curriculum_steps' = save_curriculum_step(curriculum_steps, Row(id, "topics", names, {}))
    /\ call' = [op |-> "generate", id |-> id, ok |-> TRUE, steps |-> names]
    /\ UNCHANGED <<unique_step_id, generated, savers, appVars, searchVars, chat1Vars>>

\* curriculum_service.py get_curriculum
GetCurriculum(id) ==
    /\ app = "curriculum"
    /\ \E r \in get_curriculum_step(id) :
          call' = IF r = NoRow
                  THEN [op |-> "get", id |-> id, ok |-> FALSE, steps |-> <<>>]
                  ELSE [op |-> "get", id |-> id, ok |-> TRUE, steps |-> topics(r)]
    /\ UNCHANGED <<curriculum_steps, unique_step_id, generated, savers,
                   appVars, searchVars, chat1Vars>>

\* curriculum_service.py modify_curriculum_by_id; new_steps is what the
\* modification agent answered
ModifyCurriculum(id, new_steps) ==
    /\ app = "curriculum"
    /\ Cardinality(RowsOf(id)) < MaxRows
    /\ \E r \in get_curriculum_step(id) :
          IF r = NoRow
          THEN /\ call' = [op |-> "modify", id |-> id, ok |-> FALSE, steps |-> <<>>]
               /\ UNCHANGED curriculum_steps
          ELSE /\ curriculum_steps' =
                      save_curriculum_step(curriculum_steps, Row(id, "steps", new_steps, {}))
               /\ call' = [op |-> "modify", id |-> id, ok |-> TRUE, steps |-> new_steps]
    /\ UNCHANGED <<unique_step_id, generated, savers, appVars, searchVars, chat1Vars>>

\* curriculum_service.py delete_curriculum_by_id and knowledge_service.py
\* delete_knowledge_by_id: the local file is removed if there is one
DeleteCurriculum(id) ==
    /\ app = "curriculum"
    /\ call' = [op |-> "delete", id |-> id, ok |-> (NoRow \notin get_curriculum_step(id)),
                steps |-> <<>>]
    /\ UNCHANGED <<curriculum_steps, unique_step_id, generated, savers,
                   appVars, searchVars, chat1Vars>>

\* curriculum_utils.py save_curriculum_step_detail, its read and its update
\* together: detailed_content of the rows of id becomes dc with step_<i>
\* added
save_curriculum_step_detail(table, id, dc, indexes) ==
    { IF x.step_id = id
      THEN [x EXCEPT !.detailed_content = dc \cup {<<"step", i>> : i \in indexes}]
      ELSE x : x \in table }

\* The loop of generate_section_details (prefix "section") and of
\* generate_curriculum_details (prefix "step") over the row r of id: a
\* section whose key <prefix>_<i> is not in detailed_content is generated,
\* and its detail is kept if stored (the update did not raise)
GenerateDetails(prefix, id, r, stored) ==
    LET missing == {i \in 0..(Len(topics(r)) - 1) : <<prefix, i>> \notin r.detailed_content}
    IN /\ \A i \in missing : generated[<<id, i>>] < MaxGenerated
       /\ generated' = [k \in DOMAIN generated |->
                           IF k[1] = id /\ k[2] \in missing
                           THEN generated[k] + 1 ELSE generated[k]]
       /\ curriculum_steps' =
              IF stored /\ missing # {}
              THEN save_curriculum_step_detail(curriculum_steps, id,
                                               r.detailed_content, missing)
              ELSE curriculum_steps

\* knowledge_service.py generate_section_details
GenerateSectionDetails(id, stored) ==
    /\ app = "curriculum"
    /\ \E r \in get_curriculum_step(id) :
          IF r = NoRow
          THEN /\ call' = [op |-> "section_details", id |-> id, ok |-> FALSE, steps |-> <<>>]
               /\ UNCHANGED <<curriculum_steps, generated>>
          ELSE /\ GenerateDetails("section", id, r, stored)
               /\ call' = [op |-> "section_details", id |-> id, ok |-> TRUE,
                           steps |-> topics(r)]
    /\ UNCHANGED <<unique_step_id, savers, appVars, searchVars, chat1Vars>>

\* knowledge_service.py get_section_detail: the stored section_<i>, else
\* generate_section_details(id) and its entry i
GetSectionDetail(id, i, stored) ==
    /\ app = "curriculum"
    /\ \E r \in get_curriculum_step(id) :
          IF r = NoRow
          THEN /\ call' = [op |-> "section_detail", id |-> id, ok |-> FALSE, steps |-> <<>>]
               /\ UNCHANGED <<curriculum_steps, generated>>
          ELSE IF <<"section", i>> \in r.detailed_content
          THEN /\ call' = [op |-> "section_detail", id |-> id,
                           ok |-> (i < Len(topics(r))), steps |-> topics(r)]
               /\ UNCHANGED <<curriculum_steps, generated>>
          ELSE /\ GenerateDetails("section", id, r, stored)
               /\ call' = [op |-> "section_detail", id |-> id,
                           ok |-> (i < Len(topics(r))), steps |-> topics(r)]
    /\ UNCHANGED <<unique_step_id, savers, appVars, searchVars, chat1Vars>>

\* curriculum_service.py generate_curriculum_details
GenerateCurriculumDetails(id, stored) ==
    /\ app = "curriculum"
    /\ \E r \in get_curriculum_step(id) :
          IF r = NoRow
          THEN /\ call' = [op |-> "step_details", id |-> id, ok |-> FALSE, steps |-> <<>>]
               /\ UNCHANGED <<curriculum_steps, generated>>
          ELSE /\ GenerateDetails("step", id, r, stored)
               /\ call' = [op |-> "step_details", id |-> id, ok |-> TRUE,
                           steps |-> topics(r)]
    /\ UNCHANGED <<unique_step_id, savers, appVars, searchVars, chat1Vars>>

\* The requests that may be inside save_curriculum_step_detail together
Workers == 1..MaxSavers

\* curriculum_utils.py save_curriculum_step_detail, first half: worker w
\* selects detailed_content of the rows of id and keeps what data[0] holds
SaveDetailRead(w, id, i) ==
    /\ app = "curriculum"
    /\ savers[w].pc = "idle"
    /\ \E r \in get_curriculum_step(id) :
          savers' = [savers EXCEPT ![w] =
                        IF r = NoRow
                        THEN [pc |-> "done", id |-> id, i |-> i, ok |-> FALSE]
                        ELSE [pc |-> "read", id |-> id, i |-> i,
                              dc |-> r.detailed_content]]
    /\ UNCHANGED <<curriculum_steps, unique_step_id, generated, call,
                   appVars, searchVars, chat1Vars>>

\* Second half: w sets step_<i> in the object it read and updates the rows
\* of id with that object (ok = the update did not raise)
SaveDetailWrite(w, ok) ==
    /\ app = "curriculum"
    /\ savers[w].pc = "read"
    /\ curriculum_steps' =
          IF ok
          THEN save_curriculum_step_detail(curriculum_steps, savers[w].id,
                                           savers[w].dc, {savers[w].i})
          ELSE curriculum_steps
    /\ savers' = [savers EXCEPT ![w] =
                     [pc |-> "done", id |-> savers[w].id, i |-> savers[w].i, ok |-> ok]]
    /\ UNCHANGED <<unique_step_id, generated, call, appVars, searchVars, chat1Vars>>

----------------------------------------------------------------------------
(* Specification *)

\* The state after start-up: a fresh Streamlit session, the app_state of
\* main.py after lifespan start-up
InitState ==
    /\ pinecone_client \in BOOLEAN
    /\ chat_session_id = 1
    /\ next_id = 1
    /\ history = <<>>
    /\ processed_documents = <<>>
    /\ vector_store = NoStore
    /\ session_vector_stores = [s \in SessionIds |-> Absent]
    /\ use_web_search = FALSE
    /\ search_sources = <<>>
    /\ uploaded_file = None
    /\ web_url = None
    /\ saved = [s \in SessionIds |-> NotSaved]
    /\ index = EmptyIndex
    /\ pc = "idle"
    /\ turn = NoTurn
    /\ last = NoReq
    /\ inflight = {}

\* The services start with nothing stored
InitChat1Vars ==
    /\ chat_sessions = [c \in ChatIds |-> Absent]
    /\ chat_files = [c \in ChatIds |-> NoFile]
    /\ document_context = {}
    /\ exchanges = [c \in ChatIds |-> <<>>]

InitCurriculumVars ==
    /\ curriculum_steps = {}
    /\ generated = [k \in CurriculumIds \X StepIndexes |-> 0]
    /\ savers = [w \in 1..MaxSavers |-> [pc |-> "idle"]]
    /\ call = [op |-> "none"]

InitServices == InitChat1Vars /\ InitCurriculumVars /\ unique_step_id = FALSE

InitApp ==
    /\ app \in {"streamlit", "api"}
    /\ InitState
    /\ InitServices
    /\ resp = Response("ok", <<>>, <<>>)
    /\ out = NoCall

\* The search functions are applied to every provider response
InitSearch ==
    /\ app = "search"
    /\ InitState
    /\ InitServices
    /\ resp \in Responses
    /\ out = NoCall

\* test_url_detector is applied to every query and model answer
InitDetect ==
    /\ app = "detect"
    /\ InitState
    /\ InitServices
    /\ resp \in DetectInputs
    /\ out = NoCall

InitChat1 ==
    /\ app = "chat1"
    /\ InitState
    /\ InitServices
    /\ resp = Response("ok", <<>>, <<>>)
    /\ out = NoCall

\* Whether the table rejects a second row of one step_id is decided by its
\* schema, which is not in the repository: both are possible
InitCurriculum ==
    /\ app = "curriculum"
    /\ InitState
    /\ InitChat1Vars
    /\ InitCurriculumVars
    /\ unique_step_id \in BOOLEAN
    /\ resp = Response("ok", <<>>, <<>>)
    /\ out = NoCall

Init == InitApp

\* The steps of a chat turn after the submit
TurnSteps(Intents, GenOks, Outs) ==
    \/ IngestDetected(Outs)
    \/ \E intent \in Intents : DetectIntent(intent)
    \/ DocLookup
    \/ WebLookup
    \/ \E gen_ok \in GenOks : Generate(gen_ok, Outs)

\* A chat turn whose inputs are drawn from the given sets
ChatTurn(Forces, Intents, UrlLists, GenOks, Outs) ==
    \/ \E force \in Forces, urls \in UrlLists : Submit(force, urls, Outs)
    \/ TurnSteps(Intents, GenOks, Outs)

\* The outcomes of an ingestion attempt that a specification lets happen
NoFaults == {"ok"}
Faults   == {"ok", "empty", "store_fail", "raise"}

\* Sessions and document lookup: files are uploaded, sessions are saved,
\* left and loaded, turns look documents up.
Next ==
    \/ \E f \in Files \cup {None} : UploadFile(f, NoFaults)
    \/ SaveSession(NoFaults)
    \/ NewSession(NoFaults)
    \/ \E s \in SessionIds : LoadSession(s, NoFaults)
    \/ ChatTurn({FALSE}, {FALSE}, {<<>>}, {TRUE}, NoFaults)
    \/ \E c \in Callers, u \in {"http://u1"} : ProcessUrl(c, u, NoFaults, FALSE)
    \/ ApiChatTurn({FALSE}, {<<>>}, {TRUE}, NoFaults, FALSE)

Spec == Init /\ [][Next]_vars

\* Ingestion by every route, one request after the other
NextIngest ==
    \/ \E f \in Files \cup {None} : UploadFile(f, Faults)
    \/ \E u \in {"http://u1", None} : EnterUrl(u, Faults)
    \/ ChatTurn({FALSE}, {FALSE}, Lists({"http://u1"}), BOOLEAN, Faults)
    \/ \E c \in Callers, f \in Files : ReceiveDocument(c, f, FALSE)
    \/ \E c \in Callers, f \in Files : FinishDocument(c, f, Faults)
    \/ \E c \in Callers, u \in {"http://u1"} : ProcessUrl(c, u, Faults, FALSE)
    \/ ApiChatTurn({FALSE}, Lists({"http://u1"}), BOOLEAN, Faults, FALSE)

SpecIngest == Init /\ [][NextIngest]_vars

\* The retrieval decision of a turn
NextTurn ==
    \/ \E f \in Files \cup {None} : UploadFile(f, Faults)
    \/ ToggleWebSearch(Faults)
    \/ ClearChat(Faults)
    \/ ChatTurn(BOOLEAN, BOOLEAN, Lists(Urls), BOOLEAN, Faults)
    \/ ApiChatTurn(BOOLEAN, Lists(Urls), BOOLEAN, Faults, FALSE)

SpecTurn == Init /\ [][NextTurn]_vars

\* The service under overlapping requests of its callers
NextApi ==
    \/ \E c \in Callers, f \in Files : ReceiveDocument(c, f, TRUE)
    \/ \E c \in Callers, f \in Files : FinishDocument(c, f, Faults)
    \/ \E c \in Callers, u \in {"http://u1"} : ProcessUrl(c, u, Faults, TRUE)
    \/ \E c \in Callers : GetSources(c, TRUE)
    \/ ApiChatTurn({FALSE}, Lists({"http://u2"}), BOOLEAN, Faults, TRUE)

SpecApi == Init /\ [][NextApi]_vars

\* The search functions of search.py
\* Turn after turn: a turn follows one whose links are still displayed
NextLinks ==
    \/ \E f \in Files : UploadFile(f, NoFaults)
    \/ \E force \in BOOLEAN : SubmitUpTo(MaxTurnHistory, force, <<>>, NoFaults)
    \/ TurnSteps({FALSE}, BOOLEAN, NoFaults)
    \/ ApiChatTurn(BOOLEAN, {<<>>}, BOOLEAN, NoFaults, FALSE)

SpecLinks == Init /\ [][NextLinks]_vars

NextChat1 ==
    \/ \E c \in ChatIds, m \in Messages, ok \in BOOLEAN : Chat1(c, m, ok)
    \/ \E c \in ChatIds, ok \in BOOLEAN : UploadDocument1(c, ok)
    \/ Restart1

SpecChat1 == InitChat1 /\ [][NextChat1]_vars

NextCurriculum ==
    \/ \E id \in CurriculumIds, names \in StepLists : Coordinate(id, names)
    \/ \E id \in CurriculumIds : GetCurriculum(id)
    \/ \E id \in CurriculumIds, new_steps \in StepLists : ModifyCurriculum(id, new_steps)
    \/ \E id \in CurriculumIds : DeleteCurriculum(id)
    \/ \E id \in CurriculumIds, stored \in BOOLEAN : GenerateSectionDetails(id, stored)
    \/ \E id \in CurriculumIds, i \in StepIndexes, stored \in BOOLEAN :
          GetSectionDetail(id, i, stored)
    \/ \E id \in CurriculumIds, stored \in BOOLEAN : GenerateCurriculumDetails(id, stored)

SpecCurriculum == InitCurriculum /\ [][NextCurriculum]_vars

NextSaveDetail ==
    \/ \E id \in CurriculumIds, names \in StepLists : Coordinate(id, names)
    \/ \E w \in Workers, id \in CurriculumIds, i \in StepIndexes : SaveDetailRead(w, id, i)
    \/ \E w \in Workers, ok \in BOOLEAN : SaveDetailWrite(w, ok)

SpecSaveDetail == InitCurriculum /\ [][NextSaveDetail]_vars

NextDetect == TestUrlDetector

SpecDetect == InitDetect /\ [][NextDetect]_vars

NextSearch == GoogleSearch \/ EnhancedGoogleSearch

SpecSearch == InitSearch /\ [][NextSearch]_vars

----------------------------------------------------------------------------
(* Properties *)

IsTurn == turn.kind \in {"chat", "api"}

\* C1: namespace isolation.  Whatever ingests, session switches and chat
\* turns came before, every chunk the document lookup of a chat turn returned
\* was ingested by the session that is current in that turn: a chunk ingested
\* while another session was current is never returned.
C1_NamespaceIsolation ==
    turn.kind = "chat" => \A i \in 1..Len(turn.docs) : turn.docs[i].by = turn.sid

\* A lookup in session 2 returned chunks while session 1 holds chunks of the
\* same source in its own namespace.
C1_Witness ==
    /\ turn.kind = "chat"
    /\ turn.sid = 2
    /\ turn.docs # <<>>
    /\ Chunk(1, "a.pdf", 1) \in index.stored
    /\ Chunk(2, "a.pdf", 2) \in index.stored

\* C2: in a chat turn with force_web_search the document lookup is not
\* invoked, whether or not documents have been ingested.
C2_ForceSkipsDocLookup == (IsTurn /\ turn.force) => ~turn.doc_lookup

\* A forced turn ran its web search in a session that has a store with chunks.
C2_Witness ==
    /\ turn.kind = "chat"
    /\ turn.force
    /\ turn.web_lookup
    /\ vector_store # NoStore
    /\ SourcesIn(index, chat_session_id) # {}

\* C3: in a chat turn whose document lookup returned at least one chunk and
\* that started with web search disabled, google_search is not invoked,
\* whatever the intent signal is.
C3_NoWebSearchWithDocsAndToggleOff ==
    (IsTurn /\ turn.docs # <<>> /\ ~turn.uws_start) => ~turn.web_lookup

\* The steps of the Streamlit script that pass over the upload widgets
\* attempt what is in the widgets after the step; the URL step attempts the
\* detected urls.
AttemptedNext ==
    IF pc = "urls" THEN SeqToSet(turn.urls)
    ELSE IF pc \in {"idle", "generate"} THEN {uploaded_file', web_url'} \ {None}
    ELSE {}

\* The step is an ingestion request for registered sources only
ReIngest ==
    \/ /\ app = "streamlit"
       /\ AttemptedNext # {}
       /\ AttemptedNext \subseteq SeqToSet(processed_documents)
    \/ /\ app = "api"
       /\ last'.op \in {"url", "document"}
       /\ InSeq(last'.src, processed_documents)

IdempotentStep ==
    /\ ReIngest => processed_documents' = processed_documents /\ index' = index
    /\ \A s \in SeqToSet(processed_documents) :
          /\ InSeq(s, processed_documents')
          /\ \A ns \in Namespaces, by \in 1..MaxIngester :
                Copies(index', Chunk(ns, s, by)) = Copies(index, Chunk(ns, s, by))

BothPresent == IsTurn /\ turn.docs # <<>> /\ turn.web.text # <<>>

Labels == {AdditionalLabel, GoogleLabel}

\* block occurs in ctx at position p
BlockAt(ctx, block, p) ==
    /\ p + Len(block) - 1 <= Len(ctx)
    /\ SubSeq(ctx, p, p + Len(block) - 1) = block

\* a label precedes position p, with only separators in between
LabelledAt(ctx, p) ==
    \E i \in 1..(p - 1) :
        /\ ctx[i] \in Labels
        /\ \A k \in (i + 1)..(p - 1) : ctx[k] \in {Sep, "\n"}

C6_LinksDeduplicated == out.fn # "none" => NoDup(out.result.links)

\* C7: a document lookup that raises is treated as no evidence: no turn ends
\* because check_document_relevance raised.
C7_RetrievalFailureContained == IsTurn => turn.outcome # "doc_error"

C9_SearchNeverRaises ==
    out.fn # "none" =>
        /\ out.result # Raised
        /\ resp.kind # "ok" => out.result = SearchResult(<<>>, <<>>)

\* google_search was called and the provider call raised.
C9_Witness == out.fn = "google_search" /\ resp.kind = "error"

\* C10: the callers of the service are independent: the documents a /chat
\* returns to a caller and the sources /sources lists for a caller were
\* ingested by that caller.
C10_CallersIndependent ==
    /\ turn.kind = "api" => \A i \in 1..Len(turn.docs) : turn.docs[i].by = turn.by
    /\ (app = "api" /\ last.op = "sources") =>
          \A c \in index.stored : InSeq(c.src, last.sources) => c.by = last.by

\* C11: whenever the current session changes (New Session or Load Selected
\* Session), the session being left is persisted first: right after the
\* switch its saved record holds its history and ingested sources as they
\* were at the switch.
C11_LeftSessionPersisted ==
    [][chat_session_id' # chat_session_id =>
          saved'[chat_session_id] =
              SessionData(chat_session_id, history, processed_documents,
                          search_sources, use_web_search)]_vars

IsPrefix(a, b) == Len(a) <= Len(b) /\ SubSeq(b, 1, Len(a)) = a

\* A session in which nothing has happened yet
BlankSession == SessionState(TRUE, 0, <<>>, <<>>, {}, FALSE, NoStore)

\* Saving the current session and loading it into a blank one gives back its
\* id, history and sources; an id without a record changes nothing.
SaveThenLoad ==
    LET r == load_session_data(save_current_session(saved), chat_session_id,
                               BlankSession, session_vector_stores)
    IN  /\ r.ok
        /\ r.chat_session_id = chat_session_id
        /\ r.history = history
        /\ r.processed_documents = processed_documents
        /\ \A s \in SessionIds :
              saved[s] = NotSaved =>
                  load_session_data(saved, s, CurSession, session_vector_stores)
                      = [CurSession EXCEPT !.ok = FALSE]

\* A press of "Load Selected Session": with a record the id and the history
\* are the saved ones and the sources begin with the saved ones; without a
\* record not-found is reported and the session is as it was.
LoadStep ==
    (app = "streamlit" /\ last'.op = "load") =>
        LET s == last'.id
        IN  IF saved[s] = NotSaved
            THEN /\ ~last'.ok
                 /\ UNCHANGED <<chat_session_id, history, search_sources,
                                use_web_search, saved>>
                 /\ IsPrefix(processed_documents, processed_documents')
            ELSE /\ last'.ok
                 /\ chat_session_id' = s
                 /\ history' = saved[s].history
                 /\ IsPrefix(saved[s].processed_documents, processed_documents')

\* C12: save/load round trip: after a session s is saved, loading s restores
\* the same session id, history and list of ingested sources; loading an id
\* without a saved record reports not-found and leaves the current session
\* unchanged.
C12_SaveLoadRoundTrip == []SaveThenLoad /\ [][LoadStep]_vars

\* A saved session with a message and a source has just been loaded.
C12_Witness ==
    /\ last.op = "load" /\ last.ok
    /\ history # <<>> /\ processed_documents # <<>>
    /\ history = saved[chat_session_id].history

\* A load of an id without a record has just reported not-found.
LoadNotFoundReached == last.op = "load" /\ ~last.ok

\* C13: a source whose ingestion failed is not added: a source is in the
\* list of ingested sources only if chunks of it are stored in the index, and
\* a failed store write does not discard the vector store of the session
\* (a session that has chunks in the index still has its store).
C13_FailedSourceNotAdded ==
    /\ \A i \in 1..Len(processed_documents) :
          \E c \in index.stored : c.src = processed_documents[i]
    /\ index.stored # {} => vector_store # NoStore

\* C14: if ingesting one URL detected in a query fails, only that URL is
\* skipped: the detected URLs whose ingestion does not fail are ingested in
\* that turn, and the turn is not ended by the failure.
C14_OnlyFailedUrlSkipped ==
    (turn.kind \in {"chat", "api"} /\ pc # "urls" /\ turn.url_fault) =>
        /\ turn.url_ok \subseteq turn.ingested
        /\ turn.outcome # "url_error"

\* C15: in every turn in which the web search is not invoked, the links
\* reported for the turn are empty; links obtained in earlier turns do not
\* carry over into a later turn answered from documents alone.
C15_NoLinksWithoutWebLookup ==
    /\ (turn.kind = "chat" /\ ~turn.web_lookup) => search_sources = <<>>
    /\ (turn.kind = "api" /\ turn.outcome # "running" /\ ~turn.web_lookup) =>
          last.links = <<>>

\* A turn answered from documents alone, submitted while the links of the
\* turn before were displayed.
C15_Witness ==
    /\ turn.kind = "chat" /\ turn.outcome = "answered"
    /\ ~turn.web_lookup /\ turn.docs # <<>>
    /\ turn.shown # <<>>

\* The cap the context is held against.  The code has no limit on the
\* context; the one limit it has is K chunks for a lookup.
ContextCap == K

\* The evidence of a turn: the joined chunks and the text of the web search
EvidenceLen(t) == Len(JoinDocs(t.docs)) + Len(t.web.text)

\* Nothing is ever dropped: the context of a turn holds all of its evidence.
ContextHoldsAllEvidence ==
    turn.kind \in {"chat", "api"} => Len(turn.context) >= EvidenceLen(turn)

\* C16: there is a fixed cap that the merged context never exceeds, whatever
\* evidence the document lookup and the web search return (evidence beyond
\* the cap is dropped, whole chunks of lowest relevance first).
C16_ContextWithinCap ==
    turn.kind \in {"chat", "api"} => Len(turn.context) <= ContextCap

\* A step of a chat turn of the Streamlit script
TurnStep == app = "streamlit" /\ (pc # "idle" \/ pc' # "idle")

\* C17: during a chat turn the history is only appended to: every step of a
\* turn leaves the history it found as a prefix of the history it leaves (so
\* the history at the start of the turn is a prefix of the one at its end,
\* nothing is reordered or changed), and every entry has role user or
\* assistant.
C17_HistoryAppendOnly ==
    /\ [](\A i \in 1..Len(history) : history[i].role \in {"user", "assistant"})
    /\ [][TurnStep => IsPrefix(history, history')]_vars

\* The second turn of a session has been answered: its two messages follow
\* the two of the first.
C17_Witness ==
    /\ turn.kind = "chat" /\ turn.outcome = "answered"
    /\ Len(history) = 4
    /\ history[3] = UserMessage /\ history[4] = AssistantMessage

\* C18: the retrieval decision of a turn (intent detection, document lookup,
\* web search) does not change the session: the web-search toggle, the
\* ingested sources and the session id are after each of its steps what
\* they were before; a detected intent does not switch the toggle on.
C18_DecisionLeavesSession ==
    [][(app = "streamlit" /\ pc \in {"intent", "docs", "web"}) =>
          UNCHANGED <<use_web_search, processed_documents, chat_session_id>>]_vars

\* The links are the structured ones if there are any, and otherwise, for a
\* response with text, the URLs found in the text
LinksByPriority(r, links) ==
    IF CandidateLinks(r.candidates) # <<>>
    THEN links = CandidateLinks(r.candidates)
    ELSE r.text # <<>> => links = extract_urls_from_response(r.text)

\* enhanced_google_search by itself keeps the priority of the two strategies.
EnhancedLinksByPriority ==
    (out.fn = "enhanced_google_search" /\ resp.kind = "ok") =>
        LinksByPriority(resp, out.result.links)

\* C19: the links handed to the chat pipeline are those of the provider's
\* structured citation and grounding metadata whenever there is at least
\* one; when there is none and the response text is not empty they are the
\* URLs extracted from the text by regex.
C19_PipelineLinksByPriority ==
    (out.fn = PipelineSearch /\ resp.kind = "ok") =>
        LinksByPriority(resp, out.result.links)

\* C20: when web search is not forced, the document lookup ran and returned
\* no chunk, and web search is enabled, the web search is invoked in that
\* turn, whether or not an intent was detected.
C20_EmptyLookupFallsThrough ==
    (/\ turn.kind \in {"chat", "api"}
     /\ pc \in {"generate", "idle"}
     /\ turn.outcome # "doc_error"
     /\ ~turn.force /\ turn.doc_lookup /\ turn.docs = <<>>
     /\ use_web_search)
        => turn.web_lookup

\* C21: when web search is not forced and the document lookup returned at
\* least one chunk, the web search is invoked iff web search is enabled for
\* the session and an intent was detected; when it is invoked the document
\* evidence stays in the context, the web evidence is added after it.
C21_WebSearchBesideDocs ==
    (/\ turn.kind = "chat"
     /\ pc \in {"generate", "idle"}
     /\ ~turn.force /\ turn.docs # <<>>)
        => /\ turn.web_lookup <=> (turn.uws_start /\ turn.intent)
           /\ turn.web_lookup => IsPrefix(JoinDocs(turn.docs), turn.context)

\* The same with the toggle read when the decision is taken, after intent
\* detection may have switched it on.
WebSearchBesideDocsAtDecision ==
    (/\ turn.kind = "chat"
     /\ pc \in {"generate", "idle"}
     /\ ~turn.force /\ turn.docs # <<>>)
        => /\ turn.web_lookup <=> (use_web_search /\ turn.intent)
           /\ turn.web_lookup => IsPrefix(JoinDocs(turn.docs), turn.context)

\* The context that holds the labelled web evidence and nothing else
WebOnlyContext(res) == <<GoogleLabel, "\n">> \o res.text

\* C22: when the session has no ingested content (there is no store to look
\* up), the web search runs iff web search is enabled for the session and it
\* is forced or an intent was detected; when it runs and returns text, the
\* context consists of the labelled web evidence alone.
C22_NoContentWebSearch ==
    (turn.kind = "chat" /\ pc = "generate" /\ vector_store = NoStore)
        => /\ turn.web_lookup <=> (turn.uws_start /\ (turn.force \/ turn.intent))
           /\ (turn.web_lookup /\ turn.web.text # <<>>)
                 => turn.context = WebOnlyContext(turn.web)

\* What the script does without ingested content: the search runs iff it is
\* forced or an intent was detected, the toggle notwithstanding.
NoContentWebSearchAsCoded ==
    (turn.kind = "chat" /\ pc = "generate" /\ vector_store = NoStore)
        => /\ turn.web_lookup <=> (turn.force \/ turn.intent)
           /\ (turn.web_lookup /\ turn.web.text # <<>>)
                 => turn.context = WebOnlyContext(turn.web)

\* The turn has passed the web-search decision
Decided ==
    \/ turn.kind = "chat" /\ pc \in {"generate", "idle"} /\ turn.outcome # "doc_error"
    \/ turn.kind = "api" /\ turn.outcome \in {"answered", "gen_error"}

GenerationInvoked ==
    turn.kind \in {"chat", "api"} /\ turn.outcome \in {"answered", "gen_error"}

\* C24: if neither the document lookup nor the web search produced evidence,
\* the merged context is empty and the prompt of the generation step holds
\* the original and the rewritten question only (no Context block, no source
\* links); otherwise the prompt holds the Context block with the context.
\* The generation step is invoked in either case.
C24_PromptWithoutEvidence ==
    /\ (turn.kind = "chat" /\ pc = "idle" /\ turn.outcome # "doc_error")
          => GenerationInvoked
    /\ GenerationInvoked =>
          IF turn.docs = <<>> /\ turn.web.text = <<>>
          THEN /\ turn.context = <<>>
               /\ turn.prompt = <<"Original Question:", "Rewritten Question:">>
          ELSE /\ turn.context # <<>>
               /\ turn.prompt[1] = "Context:"
               /\ SubSeq(turn.prompt, 2, 1 + Len(turn.context)) = turn.context

\* The search ran and returned nothing, no document was found, and the
\* answer was generated.
C24_Witness ==
    /\ turn.kind = "chat" /\ turn.outcome = "answered"
    /\ turn.web_lookup /\ turn.web.text = <<>> /\ turn.docs = <<>>

\* C25: on every return path of the URL detector (the model's JSON was
\* parsed, it could not be parsed, the call raised) the returned list has no
\* duplicates and every element starts with http:// or https://.
C25_DetectedUrlsNormalized ==
    out.fn = "test_url_detector" =>
        /\ NoDup(out.result)
        /\ \A i \in 1..Len(out.result) : out.result[i] \in HttpUrls

RECURSIVE Conversation(_)
\* The history entries of the exchanges ms, in order
Conversation(ms) ==
    IF ms = <<>> THEN <<>> ELSE current_history(Head(ms)) \o Conversation(Tail(ms))

\* C26: after n successful turns on chat id c the persisted history of c
\* holds all n user/model exchanges in order, so that a session rebuilt from
\* it (first use of c in a process, or after an upload) sees the whole
\* conversation.
C26_PersistedHistoryComplete ==
    app = "chat1" =>
        \A c \in ChatIds : load_chat_history(chat_files, c) = Conversation(exchanges[c])

\* C27: after modify_curriculum_by_id(id, request) returned a response with
\* steps S for an existing curriculum, the modification is stored under the
\* same id: get_curriculum(id) returns steps S, whatever row it reads.
C27_ModificationPersisted ==
    (app = "curriculum" /\ call.op = "modify" /\ call.ok) =>
        \A r \in get_curriculum_step(call.id) : r # NoRow /\ topics(r) = call.steps

\* C28: after delete_curriculum_by_id(id) (or delete_knowledge_by_id(id))
\* returned True the record is gone: get_curriculum(id) finds nothing and
\* the id is not listed any more.
C28_DeletedIsGone ==
    (app = "curriculum" /\ call.op = "delete" /\ call.ok) =>
        /\ get_curriculum_step(call.id) = {NoRow}
        /\ call.id \notin get_all_curriculums

\* The detail of section i of id is stored, whatever row is read
DetailStored(id, i) ==
    /\ RowsOf(id) # {}
    /\ \A r \in RowsOf(id) : <<"step", i>> \in r.detailed_content

\* C29: once the detail of section i of a research has been generated and
\* saved, no later get_section_detail or generate_section_details invokes
\* the detail generator for i again.
C29_DetailGeneratedOnce ==
    [][\A id \in CurriculumIds, i \in StepIndexes :
          (app = "curriculum" /\ DetailStored(id, i)
             /\ call'.op \in {"section_details", "section_detail"})
          => generated'[<<id, i>>] = generated[<<id, i>>]]_vars

\* Worker w has returned True from save_curriculum_step_detail
SavedTrue(w) == savers[w].pc = "done" /\ savers[w].ok

\* C30: if two save_curriculum_step_detail calls for the same curriculum and
\* different step indexes both returned True, however their reads and
\* updates interleaved, the stored detailed_content holds the entries of
\* both steps.
C30_NoLostDetailUpdate ==
    app = "curriculum" =>
        \A w1, w2 \in Workers :
            (/\ SavedTrue(w1) /\ SavedTrue(w2)
             /\ savers[w1].id = savers[w2].id
             /\ savers[w1].i # savers[w2].i)
            => \A r \in RowsOf(savers[w1].id) :
                   {<<"step", savers[w1].i>>, <<"step", savers[w2].i>>}
                       \subseteq r.detailed_content

====
